---- MODULE Spec2Model ----
(***************************************************************************)
(* Hybrid retrieval core of the Twitch companion (src/utils/rag_handler.py)*)
(* and its lexical-only predecessor (src/rag_handler.py).                  *)
(*                                                                         *)
(* Text is a sequence of one-character strings.  A Python optional is a    *)
(* sequence of length 0 (None) or 1.  Positions in the corpus are 0-based  *)
(* as in the source; TLA+ sequences are 1-based, so documents[idx] of the  *)
(* source is documents[idx + 1] here.                                      *)
(***************************************************************************)
EXTENDS Integers, Sequences, FiniteSets, TLC

\* ------------------------------------------------------------------ bounds
\* largest corpus (number of segments) the model lets the retriever hold
MaxDocs == 2
\* largest top_n a query is issued with
MaxTopN == 2
\* largest number of rebuilds in which a library call fails
MaxFaults == 1

\* ------------------------------------------------------- program constants
\* RRF smoothing constant, the literal 60 of 1 / (rank + 60)
RRF_K == 60
\* default value of the top_n parameter
DefaultTopN == 2

\* ---------------------------------------------------------------- optional
None == <<>>
Some(x) == <<x>>
Val(o) == o[1]

\* -------------------------------------------------------------------- text
IsSpace(c) == c \in {" ", "\n"}

Lower(c) == CASE c = "A" -> "a"
              [] c = "B" -> "b"
              [] OTHER -> c

LowerText(text) == [i \in 1..Len(text) |-> Lower(text[i])]

RECURSIVE LStrip(_)
LStrip(text) == IF text # <<>> /\ IsSpace(Head(text)) THEN LStrip(Tail(text)) ELSE text

RECURSIVE RStrip(_)
RStrip(text) ==
  IF text # <<>> /\ IsSpace(text[Len(text)])
  THEN RStrip(SubSeq(text, 1, Len(text) - 1))
  ELSE text

\* str.strip()
Strip(text) == RStrip(LStrip(text))

\* RAGHandler.preprocess_text: text.lower().strip()
preprocess_text(text) == Strip(LowerText(text))

RECURSIVE SplitAcc(_, _, _)
SplitAcc(text, cur, acc) ==
  IF text = <<>> THEN Append(acc, cur)
  ELSE IF Head(text) = " "
       THEN SplitAcc(Tail(text), <<>>, Append(acc, cur))
       ELSE SplitAcc(Tail(text), Append(cur, Head(text)), acc)

\* tokenize written with text.split(): runs of spaces separate once and no
\* empty token is produced
tokenize_words(text) == SelectSeq(SplitAcc(text, <<>>, <<>>), LAMBDA t : t # <<>>)

\* RAGHandler.tokenize: text.split(" "); "" splits to [""]
tokenize(text) == SplitAcc(text, <<>>, <<>>)

Range(s) == {s[i] : i \in 1..Len(s)}

MapSeq(s, Op(_)) == [i \in 1..Len(s) |-> Op(s[i])]

RECURSIVE Flatten(_)
Flatten(ss) == IF ss = <<>> THEN <<>> ELSE Head(ss) \o Flatten(Tail(ss))

\* ----------------------------------------------------------------- loaders
\* A file of the documents directory: its extension, what opening and
\* reading it does ("ok", "oserror", "undecodable" for a text file whose
\* bytes are not UTF-8, "corrupt" for a PDF that raises FileDataError,
\* "encrypted" for a PDF whose pages raise ValueError), and its raw parts
\* (pages of a PDF, blocks between blank lines of a text file).
Result(exc, value) == [exc |-> exc, value |-> value]

\* load_pdf: only fitz.FileDataError is caught
load_pdf(f) ==
  CASE f.status = "ok" -> Result("none", f.parts)
    [] f.status = "corrupt" -> Result("none", <<>>)
    [] f.status = "oserror" -> Result("OSError", <<>>)
    [] OTHER -> Result("ValueError", <<>>)

\* load_txt: only IOError / OSError are caught; UnicodeDecodeError is a
\* ValueError
load_txt(f) ==
  CASE f.status = "ok" ->
         Result("none", SelectSeq(MapSeq(f.parts, Strip), LAMBDA p : p # <<>>))
    [] f.status = "oserror" -> Result("none", <<>>)
    [] OTHER -> Result("ValueError", <<>>)

\* os.path.splitext(filename)[1].lower()
file_extension(f) ==
  CASE f.ext = ".TXT" -> ".txt"
    [] f.ext = ".PDF" -> ".pdf"
    [] OTHER -> f.ext

RECURSIVE load_files(_, _)
load_files(files, documents) ==
  IF files = <<>> THEN Result("none", documents)
  ELSE LET f == Head(files)
           ext == file_extension(f)
       IN IF ext \in {".pdf", ".txt"}
          THEN LET r == IF ext = ".pdf" THEN load_pdf(f) ELSE load_txt(f)
               IN IF r.exc # "none" THEN Result(r.exc, <<>>)
                  ELSE load_files(Tail(files), documents \o r.value)
          ELSE load_files(Tail(files), documents)

\* load_documents_from_directory without the os.path.exists check: listing
\* a missing directory raises FileNotFoundError, an OSError
load_documents_from_directory_unchecked(directory) ==
  IF directory.status \in {"missing", "denied"} THEN Result("OSError", <<>>)
  ELSE load_files(directory.files, <<>>)

\* load_documents_from_directory
load_documents_from_directory(directory) ==
  IF directory.status = "missing" THEN Result("none", <<>>)
  ELSE IF directory.status = "denied" THEN Result("OSError", <<>>)
  ELSE load_files(directory.files, <<>>)

\* ---------------------------------------------------------- model inputs
SegAB == <<"A", " ", "b">>
SegB == <<"b">>
Segs == {SegAB, SegB}

File(ext, status, parts) == [ext |-> ext, status |-> status, parts |-> parts]
Directory(status, files) == [status |-> status, files |-> files]

DirMissing == Directory("missing", <<>>)
DirDenied == Directory("denied", <<>>)
DirEmpty == Directory("ok", <<>>)
DirGood ==
  Directory("ok", << File(".txt", "ok", << <<" ", "A", " ", "b", "\n">>, <<"\n">> >>),
                     File(".md", "ok", << SegB >>),
                     File(".pdf", "ok", << SegB >>) >>)
DirBadTxt ==
  Directory("ok", << File(".txt", "ok", << SegB >>),
                     File(".txt", "undecodable", <<>>),
                     File(".pdf", "ok", << SegAB >>) >>)
DirCorruptPdf ==
  Directory("ok", << File(".pdf", "corrupt", <<>>),
                     File(".txt", "oserror", <<>>),
                     File(".TXT", "ok", << SegB >>) >>)

Dirs == {DirMissing, DirDenied, DirEmpty, DirGood, DirBadTxt, DirCorruptPdf}

\* sequences of segments handed to add_documents
SeqsUpTo(S, n) == UNION {[1..k -> S] : k \in 0..n}
NewDocs == SeqsUpTo(Segs, 2)

\* the library call that fails during one rebuild ("ok": none does)
Outcomes == {"ok", "preprocess", "bm25", "model", "encode", "faiss"}

\* ---------------------------------------------------------- the retriever
\* RAGHandler.__init__; loads counts the SentenceTransformer objects
\* constructed for this retriever so far
NewHandler ==
  [documents |-> <<>>, corpus |-> <<>>, bm25 |-> None, faiss_index |-> None,
   embeddings |-> None, model |-> None, is_initialized |-> FALSE, loads |-> 0]

\* SentenceTransformer.encode of one text: the vector is a function of the
\* text alone
Embed(text) == [of |-> text]

\* BM25Okapi(tokenized_corpus): the index holds the corpus it was built from
BM25Okapi(tokenized_corpus) == [corpus |-> tokenized_corpus]

\* RAGHandler.build_faiss_index: IndexFlatL2 holding the vectors in order,
\* None when construction raises
build_faiss_index(embeddings, out) ==
  IF out = "faiss" THEN None ELSE Some([vectors |-> embeddings])

\* ------------------------------------------------- initialize / add_documents
\* The frame of one initialize or add_documents call: its position, its
\* arguments, the local list returned by the loader, the step that failed
\* and whether an exception left the call.
IdleWriter ==
  [pc |-> "idle", op |-> "none", dir |-> DirMissing, new |-> <<>>, docs |-> <<>>,
   failed |-> "none", raised |-> FALSE]

start_initialize(h, directory) ==
  [IdleWriter EXCEPT !.pc = "load", !.op = "initialize", !.dir = directory]

\* add_documents without the early return of line 173
start_add_documents_always(h, new_documents) ==
  [IdleWriter EXCEPT !.pc = "extend", !.op = "add_documents", !.new = new_documents]

\* add_documents line 173: an empty argument returns at once
start_add_documents(h, new_documents) ==
  [IdleWriter EXCEPT !.pc = IF new_documents = <<>> THEN "done" ELSE "extend",
                     !.op = "add_documents", !.new = new_documents]

Step(h, w) == [h |-> h, w |-> w]

\* an except clause of update_index that only logs
update_failed_keep(h, w, step) ==
  Step(h, [w EXCEPT !.pc = "done", !.failed = step])

\* an except clause of update_index that also drops the documents
update_failed_clear(h, w, step) ==
  Step([h EXCEPT !.is_initialized = FALSE, !.documents = <<>>],
       [w EXCEPT !.pc = "done", !.failed = step])

\* the except clause of update_index
update_failed(h, w, step) ==
  Step([h EXCEPT !.is_initialized = FALSE],
       [w EXCEPT !.pc = "done", !.failed = step])

\* a load that does not look at self.model first: every embedding request
\* constructs the model again
load_embedding_model_always(h, out) ==
  IF out = "model" THEN [exc |-> "Exception", h |-> h]
  ELSE [exc |-> "none", h |-> [h EXCEPT !.model = Some("loaded"), !.loads = @ + 1]]

\* create_embeddings lines 108-109 and load_embedding_model: the model is
\* constructed only while self.model is None; a failed construction raises
load_embedding_model(h, out) ==
  IF h.model # None THEN [exc |-> "none", h |-> h]
  ELSE IF out = "model" THEN [exc |-> "Exception", h |-> h]
  ELSE [exc |-> "none", h |-> [h EXCEPT !.model = Some("loaded"), !.loads = @ + 1]]

\* RAGHandler.create_embeddings: loads the model on first use (a failed load
\* raises), then encodes (a failed encode is None)
create_embeddings(h, texts, out) ==
  LET loaded == load_embedding_model(h, out)
  IN IF loaded.exc # "none"
     THEN [exc |-> loaded.exc, h |-> loaded.h, value |-> None]
     ELSE [exc |-> "none", h |-> loaded.h,
           value |-> IF out = "encode" THEN None ELSE Some(MapSeq(texts, Embed))]

\* the query embedding kept on the retriever, as update_index keeps the
\* corpus embeddings
embed_query_stored(h, query, out) ==
  LET e == create_embeddings(h, <<query>>, out)
  IN [e EXCEPT !.h.embeddings = e.value]

\* get_relevant_documents line 214: query_embedding =
\* self.create_embeddings([query])
embed_query(h, query, out) == create_embeddings(h, <<query>>, out)

\* initialize with self.documents.extend(documents) in place of the
\* assignment
assign_documents_extend(h, documents) ==
  [h EXCEPT !.documents = h.documents \o documents]

\* initialize line 163: self.documents = documents
assign_documents(h, documents) == [h EXCEPT !.documents = documents]

\* update_index returning on an empty corpus without touching the flag
update_index_empty_keep(h) == h

\* update_index lines 135-137: an empty corpus clears is_initialized and
\* leaves every index as it is
update_index_empty(h) == [h EXCEPT !.is_initialized = FALSE]

\* one statement of initialize, add_documents or update_index
writer_step(h, w, out) ==
  CASE w.pc = "load" ->
         LET r == load_documents_from_directory(w.dir)
         IN IF r.exc = "none" THEN Step(h, [w EXCEPT !.pc = "assign", !.docs = r.value])
            ELSE IF r.exc = "OSError"
            THEN Step([h EXCEPT !.is_initialized = FALSE],
                      [w EXCEPT !.pc = "done", !.failed = "load"])
            ELSE Step(h, [w EXCEPT !.pc = "done", !.failed = "load", !.raised = TRUE])
    [] w.pc = "assign" ->
         Step(assign_documents(h, w.docs), [w EXCEPT !.pc = "check"])
    [] w.pc = "extend" ->
         Step([h EXCEPT !.documents = h.documents \o w.new], [w EXCEPT !.pc = "check"])
    [] w.pc = "check" ->
         IF h.documents = <<>>
         THEN Step(update_index_empty(h), [w EXCEPT !.pc = "done"])
         ELSE Step(h, [w EXCEPT !.pc = "corpus"])
    [] w.pc = "corpus" ->
         IF out = "preprocess" THEN update_failed(h, w, "preprocess")
         ELSE Step([h EXCEPT !.corpus = MapSeq(h.documents, preprocess_text)],
                   [w EXCEPT !.pc = "bm25"])
    [] w.pc = "bm25" ->
         IF out = "bm25" THEN update_failed(h, w, "bm25")
         ELSE Step([h EXCEPT !.bm25 = Some(BM25Okapi(MapSeq(h.corpus, tokenize)))],
                   [w EXCEPT !.pc = "embed"])
    [] w.pc = "embed" ->
         LET e == create_embeddings(h, h.documents, out)
         IN IF e.exc # "none" THEN update_failed(h, w, "model")
            ELSE Step([e.h EXCEPT !.embeddings = e.value],
                      [w EXCEPT !.pc = "faiss",
                                !.failed = IF e.value = None THEN "encode" ELSE "none"])
    [] w.pc = "faiss" ->
         IF h.embeddings # None
         THEN LET index == build_faiss_index(Val(h.embeddings), out)
              IN Step([h EXCEPT !.faiss_index = index],
                      [w EXCEPT !.pc = "flag",
                                !.failed = IF index = None THEN "faiss" ELSE "none"])
         ELSE Step(h, [w EXCEPT !.pc = "flag"])
    [] w.pc = "flag" ->
         Step([h EXCEPT !.is_initialized = TRUE], [w EXCEPT !.pc = "done"])
    [] OTHER -> Step(h, w)

RECURSIVE run_writer(_, _, _)
run_writer(h, w, out) ==
  IF w.pc \in {"done", "idle"} THEN Step(h, w)
  ELSE LET s == writer_step(h, w, out) IN run_writer(s.h, s.w, out)

\* RAGHandler.initialize, start to return
initialize(h, directory, out) == run_writer(h, start_initialize(h, directory), out)

\* RAGHandler.add_documents, start to return
add_documents(h, new_documents, out) ==
  run_writer(h, start_add_documents(h, new_documents), out)

\* ---------------------------------------------------------------- ranking
\* exact value of a Python float that is a sum of terms 1 / (rank + 60)
Frac(n, d) == [n |-> n, d |-> d]
FracAdd(a, b) == Frac(a.n * b.d + b.n * a.d, a.d * b.d)
FracGt(a, b) == a.n * b.d > b.n * a.d
FracEq(a, b) == a.n * b.d = b.n * a.d

\* rrf_score that leaves the rank out: 1 / 60 for every entry
rrf_score_flat(rank) == Frac(1, RRF_K)

\* rrf_score with the rank counted from 1
rrf_score_one_based(rank) == Frac(1, rank + 1 + RRF_K)

\* rrf_score = 1 / (rank + 60), rank 0-based
rrf_score(rank) == Frac(1, rank + RRF_K)

Take(s, n) == SubSeq(s, 1, IF n < Len(s) THEN n ELSE Len(s))
Reverse(s) == [i \in 1..Len(s) |-> s[Len(s) + 1 - i]]
Perms(n) == {p \in [1..n -> 0..(n - 1)] : \A i, j \in 1..n : p[i] = p[j] => i = j}
PosIn(s, x) == CHOOSE i \in 1..Len(s) : s[i] = x

\* BM25Okapi.get_scores: one score per segment of the indexed corpus.  A
\* segment sharing no token with the query scores exactly 0; the score of any
\* other segment is what the term statistics give (negative, zero or
\* positive), so the call is modelled by the set of vectors it may return.
MatchScores == {-1, 0, 1}
get_scores(bm25, tokenized_query) ==
  {s \in [1..Len(bm25.corpus) -> MatchScores] :
     \A i \in 1..Len(bm25.corpus) :
       Range(bm25.corpus[i]) \cap Range(tokenized_query) = {} => s[i] = 0}

\* np.argsort(scores): positions by ascending score; numpy's default sort is
\* not stable, so the order among equal scores is the one the build gives
\* (tie, a permutation of the positions)
argsort(scores, tie) ==
  SortSeq([i \in 1..Len(scores) |-> i - 1],
          LAMBDA a, b : \/ scores[a + 1] < scores[b + 1]
                        \/ /\ scores[a + 1] = scores[b + 1]
                           /\ PosIn(tie, a) < PosIn(tie, b))

\* np.argsort(bm25_scores)[::-1][:top_n * 2]
bm25_top_indices(argsorted, top_n) == Take(Reverse(argsorted), top_n * 2)

\* faiss_index.search(query_embedding, k)[1][0]: the k nearest stored vectors
\* nearest first (order, a permutation of the positions, is the order of the
\* distances), padded with -1 when fewer than k vectors are stored
faiss_search(index, k, order) ==
  LET near == SelectSeq(order, LAMBDA p : p < Len(index.vectors))
  IN [i \in 1..k |-> IF i <= Len(near) THEN near[i] ELSE -1]

HasKey(results, doc_id) == \E i \in 1..Len(results) : results[i].doc_id = doc_id

\* accumulate with the += written as =: a second contribution replaces the
\* first
accumulate_overwrite(results, doc_id, rank) ==
  IF HasKey(results, doc_id)
  THEN [i \in 1..Len(results) |->
          IF results[i].doc_id = doc_id
          THEN [results[i] EXCEPT !.score = rrf_score(rank)]
          ELSE results[i]]
  ELSE Append(results, [doc_id |-> doc_id, score |-> rrf_score(rank)])

\* results[doc_id] += rrf_score, or a new entry at the end of the dict
accumulate(results, doc_id, rank) ==
  IF HasKey(results, doc_id)
  THEN [i \in 1..Len(results) |->
          IF results[i].doc_id = doc_id
          THEN [results[i] EXCEPT !.score = FracAdd(results[i].score, rrf_score(rank))]
          ELSE results[i]]
  ELSE Append(results, [doc_id |-> doc_id, score |-> rrf_score(rank)])

\* for rank, idx in enumerate(indices): ... , skipping the sentinel when asked
RECURSIVE add_ranked(_, _, _, _)
add_ranked(results, indices, rank, skip_sentinel) ==
  IF rank >= Len(indices) THEN results
  ELSE LET idx == indices[rank + 1]
       IN add_ranked(IF skip_sentinel /\ idx = -1 THEN results
                     ELSE accumulate(results, idx, rank),
                     indices, rank + 1, skip_sentinel)

\* the FAISS loop without its idx != -1 test
add_semantic_unchecked(results, indices) == add_ranked(results, indices, 0, FALSE)

\* lines 223-230: the FAISS results added with RRF scoring, -1 skipped
add_semantic(results, indices) == add_ranked(results, indices, 0, TRUE)

\* sorted_results without reverse=True: ascending fused score
sorted_results_ascending(results) ==
  LET order == SortSeq([i \in 1..Len(results) |-> i],
                       LAMBDA i, j : \/ FracGt(results[j].score, results[i].score)
                                     \/ /\ FracEq(results[i].score, results[j].score)
                                        /\ i < j)
  IN [i \in 1..Len(results) |-> results[order[i]]]

\* sorted(results.items(), key=lambda x: x[1], reverse=True): stable, equal
\* scores keep the insertion order of the dict
sorted_results(results) ==
  LET order == SortSeq([i \in 1..Len(results) |-> i],
                       LAMBDA i, j : \/ FracGt(results[i].score, results[j].score)
                                     \/ /\ FracEq(results[i].score, results[j].score)
                                        /\ i < j)
  IN [i \in 1..Len(results) |-> results[order[i]]]

\* the first top_n keys of results taken without sorting
top_doc_indices_unsorted(results, top_n) ==
  LET top == Take(results, top_n)
  IN [i \in 1..Len(top) |-> top[i].doc_id]

\* [doc_id for doc_id, _ in sorted_results[:top_n]]
top_doc_indices(results, top_n) ==
  LET top == Take(sorted_results(results), top_n)
  IN [i \in 1..Len(top) |-> top[i].doc_id]

\* list[idx] of Python: a negative idx counts from the end
PyIndex(list, idx) == IF idx < 0 THEN list[Len(list) + idx + 1] ELSE list[idx + 1]

\* [self.documents[idx] for idx in top_doc_indices if idx < len(self.documents)]
top_docs(documents, indices) ==
  LET kept == SelectSeq(indices, LAMBDA idx : idx < Len(documents))
  IN [i \in 1..Len(kept) |-> PyIndex(documents, kept[i])]

\* -------------------------------------------------- get_relevant_documents
QueryA == <<"A">>
QueryBlank == <<" ">>
Queries == {QueryA, QueryBlank}

\* What the libraries give one query on retriever h: the BM25 scores
\* (scores), the order numpy leaves equal scores in (tie), the order of the
\* L2 distances (sem), and the call that fails, if any (fail): "score" raises
\* while scoring, "encode" makes the query embedding None, "search" raises in
\* the FAISS search.
QueryInputs(h, query) ==
  LET n == IF h.bm25 = None THEN 0 ELSE Len(Val(h.bm25).corpus)
      m == IF h.faiss_index = None THEN 0 ELSE Len(Val(h.faiss_index).vectors)
  IN [scores : IF h.bm25 = None THEN {<<>>}
               ELSE get_scores(Val(h.bm25), tokenize(preprocess_text(query))),
      tie : Perms(n),
      sem : Perms(m),
      fail : {"none", "score"} \cup
             (IF h.faiss_index = None THEN {} ELSE {"encode", "search"})]

\* the positions 0..n-1 in increasing order
Ascending(n) == [i \in 1..n |-> i - 1]

\* The library outcomes the call-sequence specification gives a query: every
\* segment sharing a token with the query scores 1, equal scores and the L2
\* distances come in increasing or in decreasing position order, and any one
\* call may fail.
CallInputs(h, query) ==
  LET n == IF h.bm25 = None THEN 0 ELSE Len(Val(h.bm25).corpus)
      m == IF h.faiss_index = None THEN 0 ELSE Len(Val(h.faiss_index).vectors)
      tokens == tokenize(preprocess_text(query))
  IN [scores : {IF h.bm25 = None THEN <<>>
                ELSE [i \in 1..n |->
                        IF Range(Val(h.bm25).corpus[i]) \cap Range(tokens) = {}
                        THEN 0 ELSE 1]},
      tie : {Ascending(n), Reverse(Ascending(n))},
      sem : {Ascending(m), Reverse(Ascending(m))},
      fail : {"none", "score"} \cup
             (IF h.faiss_index = None THEN {} ELSE {"encode", "search"})]

\* The frame of one get_relevant_documents call: position, arguments, the
\* locals bm25_scores, np.argsort(bm25_scores), bm25_top_indices (lex),
\* indices[0] (sem), results and top_doc_indices (top), the returned list,
\* whether the except clause
\* ran, and the objects the call read from the retriever.
IdleReader ==
  [pc |-> "idle", query |-> <<>>, top_n |-> DefaultTopN, results |-> <<>>,
   scores |-> <<>>, argsorted |-> <<>>, lex |-> <<>>, sem |-> <<>>, scored |-> FALSE, searched |-> FALSE,
   top |-> <<>>, result |-> <<>>, caught |-> FALSE,
   sawBm25 |-> None, sawFaiss |-> None, sawDocs |-> <<>>]

start_query(query, top_n) ==
  [IdleReader EXCEPT !.pc = "guard", !.query = query, !.top_n = top_n]

\* an except clause that also marks the retriever uninitialized, as the one
\* of update_index does
query_failed_reset(h, r) ==
  Step([h EXCEPT !.is_initialized = FALSE],
       [r EXCEPT !.pc = "done", !.caught = TRUE, !.result = <<>>])

\* the except clause of get_relevant_documents: log and return []
query_failed(h, r) ==
  Step(h, [r EXCEPT !.pc = "done", !.caught = TRUE, !.result = <<>>])

\* one statement group of get_relevant_documents
reader_step(h, r, in) ==
  CASE r.pc = "guard" ->
         IF ~h.is_initialized THEN Step(h, [r EXCEPT !.pc = "done", !.result = <<>>])
         ELSE Step(h, [r EXCEPT !.pc = "score"])
    [] r.pc = "score" ->
         IF in.fail = "score" \/ h.bm25 = None THEN query_failed(h, r)
         ELSE LET bm25_scores == in.scores
                  argsorted == argsort(bm25_scores, in.tie)
                  top == bm25_top_indices(argsorted, r.top_n)
              IN Step(h, [r EXCEPT !.pc = "embed", !.scores = bm25_scores,
                                   !.argsorted = argsorted, !.lex = top,
                                   !.scored = TRUE, !.sawBm25 = h.bm25,
                                   !.results = add_ranked(<<>>, top, 0, FALSE)])
    [] r.pc = "embed" ->
         IF h.faiss_index = None
         THEN Step(h, [r EXCEPT !.pc = "rank", !.sawFaiss = None])
         ELSE LET e == embed_query(h, r.query,
                                   IF in.fail = "encode" THEN "encode" ELSE "ok")
              IN IF e.exc # "none" THEN query_failed(h, r)
                 ELSE Step(e.h,
                           [r EXCEPT !.pc = IF e.value = None THEN "rank" ELSE "search",
                                     !.sawFaiss = h.faiss_index])
    [] r.pc = "search" ->
         IF in.fail = "search" \/ h.faiss_index = None THEN query_failed(h, r)
         ELSE LET indices == faiss_search(Val(h.faiss_index), r.top_n * 2, in.sem)
              IN Step(h, [r EXCEPT !.pc = "rank", !.sem = indices, !.searched = TRUE,
                                   !.sawFaiss = h.faiss_index,
                                   !.results = add_semantic(r.results, indices)])
    [] r.pc = "rank" ->
         LET top == top_doc_indices(r.results, r.top_n)
         IN Step(h, [r EXCEPT !.pc = "done", !.sawDocs = h.documents, !.top = top,
                              !.result = top_docs(h.documents, top)])
    [] OTHER -> Step(h, r)

RECURSIVE run_reader(_, _, _)
run_reader(h, r, in) ==
  IF r.pc \in {"done", "idle"} THEN Step(h, r)
  ELSE LET s == reader_step(h, r, in) IN run_reader(s.h, s.w, in)

\* RAGHandler.get_relevant_documents, start to return
get_relevant_documents(h, query, top_n, in) ==
  run_reader(h, start_query(query, top_n), in)

\* ------------------------------------------- lexical-only RAGHandler variant
\* src/rag_handler.py, RAGHandler.update_index: BM25 only
lexical_update_index(documents, out) ==
  IF documents = <<>>
  THEN [documents |-> documents, bm25 |-> None, is_initialized |-> FALSE]
  ELSE IF out \in {"preprocess", "bm25"}
  THEN [documents |-> documents, bm25 |-> None, is_initialized |-> FALSE]
  ELSE [documents |-> documents,
        bm25 |-> Some(BM25Okapi(MapSeq(MapSeq(documents, preprocess_text), tokenize))),
        is_initialized |-> TRUE]

\* BM25Okapi.get_top_n: [documents[i] for i in np.argsort(scores)[::-1][:n]]
get_top_n(argsorted, documents, n) ==
  LET top == Take(Reverse(argsorted), n)
  IN [i \in 1..Len(top) |-> documents[top[i] + 1]]

\* src/rag_handler.py, RAGHandler.get_relevant_documents
lexical_get_relevant_documents(hl, query, top_n, in) ==
  IF ~hl.is_initialized THEN <<>>
  ELSE IF in.fail = "score" \/ hl.bm25 = None THEN <<>>
  ELSE get_top_n(argsort(in.scores, in.tie), hl.documents, top_n)

\* ------------------------------------------------------------ file manager
\* src/utils/file_manager.py.  A file name as a client sends it: a directory
\* prefix and a base name; NoName is None or the empty string.
FileName(dir, base) == [dir |-> dir, base |-> base]
NoName == FileName("", "")

\* werkzeug secure_filename: path separators and leading dots are dropped,
\* what is left of "../a.txt" is "a.txt" and of "../" is ""
secure_filename(name) == name.base

\* the base names the documents directory can hold, in os.listdir order
BaseNames == <<"a.txt", "b.pdf", "c.md">>

extension(base) ==
  CASE base = "a.txt" -> ".txt"
    [] base = "b.pdf" -> ".pdf"
    [] base = "c.md" -> ".md"
    [] OTHER -> ""

\* what a file holds: readable text, or bytes the loaders raise ValueError on
Contents == {[status |-> "ok", parts |-> << SegB >>],
             [status |-> "undecodable", parts |-> <<>>]}

\* static/doc: whether the directory exists and what each base name holds
MissingDisk == [exists |-> FALSE, files |-> [b \in Range(BaseNames) |-> None]]
EmptyDisk == [MissingDisk EXCEPT !.exists = TRUE]
InitialDisks ==
  {MissingDisk, EmptyDisk,
   [EmptyDisk EXCEPT !.files["c.md"] = Some([status |-> "ok", parts |-> << SegB >>])]}

\* the directory as load_documents_from_directory finds it
DirOf(disk) ==
  IF ~disk.exists THEN DirMissing
  ELSE LET present == SelectSeq(BaseNames, LAMBDA b : disk.files[b] # None)
       IN Directory("ok", [i \in 1..Len(present) |->
                             File(extension(present[i]),
                                  Val(disk.files[present[i]]).status,
                                  Val(disk.files[present[i]]).parts)])

\* the latest handler call: which one, the file-system and retriever calls
\* it made in order, and the status and message of the dict it returned
\* ("raised": an exception left the handler)
NoCall == [op |-> "none", events |-> <<>>, status |-> "none", message |-> ""]

\* the application: boot or serving, how many initialize calls the main
\* block made, the documents directory, the latest handler call
NewApp == [phase |-> "boot", boot_calls |-> 0, disk |-> EmptyDisk, call |-> NoCall]

Returned(h, w, a, disk, op, events, status, message) ==
  [h |-> h, w |-> w,
   app |-> [a EXCEPT !.disk = disk,
                     !.call = [op |-> op, events |-> events, status |-> status,
                               message |-> message]]]

\* a handler that returns success without re-initializing the retriever
rag_initialize_skipped(h, w, disk, out) ==
  [h |-> h, w |-> w, events |-> <<>>]

\* self.rag_handler.initialize(self.doc_dir)
rag_initialize(h, w, disk, out) ==
  LET s == initialize(h, DirOf(disk), out)
  IN [h |-> s.h, w |-> s.w, events |-> <<"initialize">>]

\* FileManager.delete_document; io names the file-system call that raises
\* OSError, if any
delete_document(h, w, a, filename, io, out) ==
  IF filename = NoName
  THEN Returned(h, w, a, a.disk, "delete_document", <<>>, "error", "No filename provided")
  ELSE LET base == secure_filename(filename)
           exists == /\ a.disk.exists
                     /\ base # "" => a.disk.files[base] # None
       IN IF ~exists
          THEN Returned(h, w, a, a.disk, "delete_document", <<>>, "error", "File not found")
          ELSE IF io = "remove" \/ base = ""
          THEN Returned(h, w, a, a.disk, "delete_document", <<>>, "error", "OSError")
          ELSE LET disk == [a.disk EXCEPT !.files[base] = None]
                   r == rag_initialize(h, w, disk, out)
               IN IF r.w.raised
                  THEN Returned(r.h, r.w, a, disk, "delete_document",
                                <<"remove">> \o r.events, "raised", "ValueError")
                  ELSE Returned(r.h, r.w, a, disk, "delete_document",
                                <<"remove">> \o r.events, "success", "Deleted")

\* FileManager.upload_document; file_data is None or Some([name, content])
upload_document(h, w, a, file_data, io, out) ==
  IF file_data = None
  THEN Returned(h, w, a, a.disk, "upload_document", <<>>, "error", "No file provided")
  ELSE LET filename == secure_filename(Val(file_data).name)
       IN IF extension(filename) \notin {".pdf", ".txt"}
          THEN Returned(h, w, a, a.disk, "upload_document", <<>>, "error", "Invalid file type")
          ELSE IF io = "makedirs"
          THEN Returned(h, w, a, a.disk, "upload_document", <<>>, "error", "OSError")
          ELSE IF io = "write"
          THEN Returned(h, w, a, [a.disk EXCEPT !.exists = TRUE], "upload_document",
                        <<"makedirs">>, "error", "OSError")
          ELSE LET disk == [a.disk EXCEPT !.exists = TRUE,
                                          !.files[filename] = Some(Val(file_data).content)]
                   r == rag_initialize(h, w, disk, out)
                   events == <<"makedirs", "write">> \o r.events
               IN IF r.w.raised
                  THEN Returned(r.h, r.w, a, disk, "upload_document", events,
                                "raised", "ValueError")
                  ELSE IF io = "stat"
                  THEN Returned(r.h, r.w, a, disk, "upload_document", events,
                                "error", "OSError")
                  ELSE Returned(r.h, r.w, a, disk, "upload_document",
                                Append(events, "stat"), "success", "Uploaded")

\* ------------------------------------------------------------------ state
\* rag: the shared RAGHandler; writer / reader: the frame of the latest
\* initialize or add_documents call and of the latest get_relevant_documents
\* call; committed: the retriever as the latest returned write left it;
\* snaps: the committed (documents, bm25, faiss_index) triples that existed
\* while the query in progress ran; faults: how many rebuilds had a library
\* call fail; app: the application around the retriever (boot or serving,
\* the documents directory, the latest file-manager call)
VARIABLES rag, writer, reader, committed, snaps, faults, app

vars == <<rag, writer, reader, committed, snaps, faults, app>>

Triple(h) == <<h.documents, h.bm25, h.faiss_index>>

Init ==
  /\ rag = NewHandler
  /\ writer = IdleWriter
  /\ reader = IdleReader
  /\ committed = NewHandler
  /\ snaps = {}
  /\ faults = 0
  /\ app = NewApp

\* a rebuild outcome the fault budget allows, counted when it made this step
\* of the call fail
Budget(out, w, w2) ==
  /\ out # "ok" => faults < MaxFaults /\ w2.failed = out /\ w.failed # out
  /\ faults' = IF out = "ok" THEN faults ELSE faults + 1

\* the application calls initialize(documents_dir)
Initialize ==
  /\ reader.pc = "idle"
  /\ \E directory \in Dirs, out \in Outcomes :
       \E s \in {initialize(rag, directory, out)} :
          /\ Budget(out, IdleWriter, s.w)
          /\ rag' = s.h
          /\ writer' = s.w
          /\ committed' = s.h
          /\ UNCHANGED <<app, reader, snaps>>

\* the application calls add_documents(new_documents)
AddDocuments ==
  /\ reader.pc = "idle"
  /\ \E new_documents \in NewDocs, out \in Outcomes :
       /\ Len(rag.documents) + Len(new_documents) <= MaxDocs
       /\ \E s \in {add_documents(rag, new_documents, out)} :
            /\ Budget(out, IdleWriter, s.w)
            /\ rag' = s.h
            /\ writer' = s.w
            /\ committed' = s.h
            /\ UNCHANGED <<app, reader, snaps>>

\* the application calls get_relevant_documents(query, top_n)
GetRelevantDocuments ==
  /\ reader.pc = "idle"
  /\ \E query \in Queries, top_n \in 1..MaxTopN :
       \E in \in CallInputs(rag, query) :
         \E s \in {get_relevant_documents(rag, query, top_n, in)} :
            /\ rag' = s.h
            /\ reader' = s.w
            /\ UNCHANGED <<app, writer, committed, snaps, faults>>

\* the application puts retrieved_docs into the prompt and the request ends
Respond ==
  /\ reader.pc = "done"
  /\ reader' = IdleReader
  /\ UNCHANGED <<app, rag, writer, committed, snaps, faults>>

Next == Initialize \/ AddDocuments \/ GetRelevantDocuments \/ Respond

\* single-threaded caller: every call returns before the next one starts
Spec == Init /\ [][Next]_vars

\* ------------------------------------------------ concurrent request tasks
\* One task runs initialize or add_documents while another runs
\* get_relevant_documents on the same retriever; RAGHandler takes no lock, so
\* the statements of the two calls interleave.
Running(frame) == frame.pc \notin {"idle", "done"}

\* the calls the two tasks make
ConcDirs == {DirGood, DirCorruptPdf}
ConcNewDocs == {<<SegB>>}
ConcQueries == {QueryBlank}

BeginInitialize ==
  /\ ~Running(writer)
  /\ \E directory \in ConcDirs : writer' = start_initialize(rag, directory)
  /\ UNCHANGED <<app, rag, reader, committed, snaps, faults>>

BeginAddDocuments ==
  /\ ~Running(writer)
  /\ \E new_documents \in ConcNewDocs :
       /\ Len(rag.documents) + Len(new_documents) <= MaxDocs
       /\ writer' = start_add_documents(rag, new_documents)
  /\ UNCHANGED <<app, rag, reader, committed, snaps, faults>>

\* the write in progress executes its next statement (no library call fails
\* here: the interleaving alone is examined); a write that returns commits
\* the retriever as it leaves it
WriteStep ==
  /\ Running(writer)
  /\ \E s \in {writer_step(rag, writer, "ok")} :
       /\ rag' = s.h
       /\ writer' = s.w
       /\ committed' = IF Running(s.w) THEN committed ELSE s.h
       /\ snaps' = IF ~Running(s.w) /\ Running(reader)
                   THEN snaps \cup {Triple(s.h)} ELSE snaps
  /\ UNCHANGED <<app, reader, faults>>

BeginQuery ==
  /\ ~Running(reader)
  /\ \E query \in ConcQueries, top_n \in 1..MaxTopN :
       reader' = start_query(query, top_n)
  /\ snaps' = {Triple(committed)}
  /\ UNCHANGED <<app, rag, writer, committed, faults>>

\* the query in progress executes its next statement group
QueryStep ==
  /\ Running(reader)
  /\ \E in \in QueryInputs(rag, reader.query) :
       \E s \in {reader_step(rag, reader, in)} :
          /\ rag' = s.h
          /\ reader' = s.w
  /\ UNCHANGED <<app, writer, committed, snaps, faults>>

NextConc == BeginInitialize \/ BeginAddDocuments \/ WriteStep \/ BeginQuery \/ QueryStep

\* a writer task and a reader task sharing the retriever
SpecConc == Init /\ [][NextConc]_vars

\* ------------------------------------------------- ranking of one query
\* the retrievers one initialize or add_documents call leaves behind h
WriteResults(h) ==
  {initialize(h, directory, out).h : directory \in Dirs, out \in Outcomes}
  \cup {add_documents(h, new_documents, out).h :
          new_documents \in {d \in NewDocs : Len(h.documents) + Len(d) <= MaxDocs},
          out \in Outcomes}

\* the retrievers two such calls leave behind a new RAGHandler
RankStates == UNION {WriteResults(h) : h \in WriteResults(NewHandler)}

InitRank ==
  /\ rag \in RankStates
  /\ writer = IdleWriter
  /\ reader = IdleReader
  /\ committed = rag
  /\ snaps = {}
  /\ faults = 0
  /\ app = NewApp

\* get_relevant_documents(query, top_n) with every outcome the libraries
\* have for the scores, the order of equal scores and the L2 distances
RankQuery ==
  /\ reader.pc = "idle"
  /\ \E query \in Queries, top_n \in 1..MaxTopN :
       \E in \in QueryInputs(rag, query) :
         \E s \in {get_relevant_documents(rag, query, top_n, in)} :
            /\ rag' = s.h
            /\ reader' = s.w
            /\ UNCHANGED <<app, writer, committed, snaps, faults>>

NextRank == RankQuery \/ Respond

\* one query at a time on a retriever that two writes have prepared
SpecRank == InitRank /\ [][NextRank]_vars

\* ------------------------------------------------ initialize called twice
\* the application calls initialize(directory) and, when it has returned,
\* calls it again; the directory and what the libraries do are the same in
\* both calls.  committed keeps the retriever as the first call left it.
InitializeTwice ==
  \E directory \in Dirs, out \in Outcomes :
    \E first \in {initialize(rag, directory, out)} :
      \E second \in {initialize(first.h, directory, out)} :
         /\ rag' = second.h
         /\ writer' = second.w
         /\ committed' = first.h
         /\ UNCHANGED <<app, reader, snaps, faults>>

NextTwice == InitializeTwice

\* pairs of initialize calls on a retriever that two writes have prepared
SpecTwice == InitRank /\ [][NextTwice]_vars

\* ------------------------------------------------- the three-segment corpus
\* "the cat sat on the mat"
CatSeg1 ==
  <<"t", "h", "e", " ", "c", "a", "t", " ", "s", "a",
    "t", " ", "o", "n", " ", "t", "h", "e", " ", "m",
    "a", "t">>
\* "dogs are loyal companions"
CatSeg2 ==
  <<"d", "o", "g", "s", " ", "a", "r", "e", " ", "l",
    "o", "y", "a", "l", " ", "c", "o", "m", "p", "a",
    "n", "i", "o", "n", "s">>
\* "cats and dogs can be friends"
CatSeg3 ==
  <<"c", "a", "t", "s", " ", "a", "n", "d", " ", "d",
    "o", "g", "s", " ", "c", "a", "n", " ", "b", "e",
    " ", "f", "r", "i", "e", "n", "d", "s">>
CatCorpus == <<CatSeg1, CatSeg2, CatSeg3>>
QueryCat == <<"c", "a", "t">>

\* a documents directory holding one text file with the three blocks
DirCat == Directory("ok", << File(".txt", "ok", CatCorpus) >>)

\* startup: initialize(documents_dir) on a new RAGHandler, no library call
\* failing
InitCat ==
  /\ rag = initialize(NewHandler, DirCat, "ok").h
  /\ writer = IdleWriter
  /\ reader = IdleReader
  /\ committed = rag
  /\ snaps = {}
  /\ faults = 0
  /\ app = NewApp

\* get_relevant_documents("cat", top_n) with every outcome the libraries
\* have
CatQuery ==
  /\ reader.pc = "idle"
  /\ \E top_n \in 1..MaxTopN :
       \E in \in QueryInputs(rag, QueryCat) :
         \E s \in {get_relevant_documents(rag, QueryCat, top_n, in)} :
            /\ rag' = s.h
            /\ reader' = s.w
            /\ UNCHANGED <<app, writer, committed, snaps, faults>>

NextCat == CatQuery \/ Respond

\* queries for "cat" on the three-segment corpus
SpecCat == InitCat /\ [][NextCat]_vars

\* ------------------------------------------- the application's call sites
\* app.py main block: rag_handler.initialize(documents_dir), then
\* socketio.run; only OSError and RuntimeError are caught around it
startup(h, w, a, out) ==
  LET s == initialize(h, DirOf(a.disk), out)
  IN [h |-> s.h, w |-> s.w,
      app |-> [a EXCEPT !.boot_calls = @ + 1,
                        !.phase = IF s.w.raised THEN "crashed" ELSE "serving"]]

\* the names and files a client sends
FileNames == {FileName(dir, base) : dir \in {"", "../"}, base \in Range(BaseNames) \cup {""}}
Uploads == {None} \cup {Some([name |-> n, content |-> c]) : n \in FileNames, c \in Contents}

\* what the libraries do during a rebuild the application triggers: nothing
\* fails, or BM25Okapi raises
AppOutcomes == {"ok", "bm25"}

InitApp ==
  /\ rag = NewHandler
  /\ writer = IdleWriter
  /\ reader = IdleReader
  /\ committed = NewHandler
  /\ snaps = {}
  /\ faults = 0
  /\ app \in {[NewApp EXCEPT !.disk = disk] : disk \in InitialDisks}

Startup ==
  /\ app.phase = "boot"
  /\ \E out \in AppOutcomes :
       \E s \in {startup(rag, writer, app, out)} :
          /\ rag' = s.h
          /\ writer' = s.w
          /\ app' = s.app
          /\ committed' = s.h
          /\ UNCHANGED <<reader, snaps, faults>>

\* socket event upload_document
UploadDocument ==
  /\ app.phase = "serving"
  /\ \E file_data \in Uploads, io \in {"ok", "makedirs", "write", "stat"},
        out \in AppOutcomes :
       \E s \in {upload_document(rag, writer, app, file_data, io, out)} :
          /\ rag' = s.h
          /\ writer' = s.w
          /\ app' = s.app
          /\ committed' = s.h
          /\ UNCHANGED <<reader, snaps, faults>>

\* socket event delete_document
DeleteDocument ==
  /\ app.phase = "serving"
  /\ \E filename \in FileNames, io \in {"ok", "remove"}, out \in AppOutcomes :
       \E s \in {delete_document(rag, writer, app, filename, io, out)} :
          /\ rag' = s.h
          /\ writer' = s.w
          /\ app' = s.app
          /\ committed' = s.h
          /\ UNCHANGED <<reader, snaps, faults>>

NextApp == Startup \/ UploadDocument \/ DeleteDocument

\* the application from start: the main block, then document uploads and
\* deletions
SpecApp == InitApp /\ [][NextApp]_vars

\* ------------------------------------------------------- the empty query
\* "A  b", two spaces between the words
SegSpaced == <<"A", " ", " ", "b">>
\* the empty string
QueryEmpty == <<>>

\* a documents directory whose text file holds the blocks "A  b" and "b"
DirSpaced == Directory("ok", << File(".txt", "ok", << SegSpaced, SegB >>) >>)

\* a documents directory none of whose segments has a double space
DirPlain == Directory("ok", << File(".txt", "ok", << SegB, SegAB >>) >>)

\* startup: initialize(documents_dir) on a new RAGHandler, no library call
\* failing
InitBlank ==
  /\ \E dir \in {DirSpaced, DirPlain} : rag = initialize(NewHandler, dir, "ok").h
  /\ writer = IdleWriter
  /\ reader = IdleReader
  /\ committed = rag
  /\ snaps = {}
  /\ faults = 0
  /\ app = NewApp

\* get_relevant_documents("", top_n) or get_relevant_documents(" ", top_n)
\* with every outcome the libraries have
BlankQuery ==
  /\ reader.pc = "idle"
  /\ \E query \in {QueryEmpty, QueryBlank}, top_n \in 1..MaxTopN :
       \E in \in QueryInputs(rag, query) :
         \E s \in {get_relevant_documents(rag, query, top_n, in)} :
            /\ rag' = s.h
            /\ reader' = s.w
            /\ UNCHANGED <<app, writer, committed, snaps, faults>>

NextBlank == BlankQuery \/ Respond

\* empty and blank queries on a corpus one segment of which has a double
\* space
SpecBlank == InitBlank /\ [][NextBlank]_vars

\* ================================================================== claims
\* a get_relevant_documents call that returned from its last statement
Answered == reader.pc = "done" /\ reader.scored /\ ~reader.caught

\* C1: a query that runs to its last statement while writes go on reads a
\* (documents, bm25, faiss_index) triple that is one of the committed
\* triples: the one before a concurrent write or the one after it.
C1_ConsistentRead ==
  Answered =>
    <<reader.sawDocs, reader.sawBm25, reader.sawFaiss>> \in snaps

\* the BM25 index a rebuild over documents produces
IndexOf(documents) ==
  Some(BM25Okapi(MapSeq(MapSeq(documents, preprocess_text), tokenize)))

\* C2: whenever is_initialized is true, the BM25 index is built from exactly
\* the current documents and a FAISS index that is not None holds exactly one
\* vector per current segment, in the order of the documents list.
C2_IndicesMatchCorpus ==
  rag.is_initialized =>
    /\ rag.bm25 = IndexOf(rag.documents)
    /\ rag.faiss_index # None =>
         Val(rag.faiss_index).vectors = MapSeq(rag.documents, Embed)

Min(a, b) == IF a < b THEN a ELSE b

\* C3: a query that returns from its last statement, and a query on an
\* uninitialized retriever, return exactly min(top_n, N) segments, N the
\* current number of segments.
C3_ResultLength ==
  (reader.pc = "done" /\ ~reader.caught) =>
    Len(reader.result) = Min(reader.top_n, Len(rag.documents))

\* C4: an initialize or add_documents call whose rebuild has a failing step
\* leaves documents, bm25, faiss_index and is_initialized as they were
\* before the call.
C4_FailedRebuildRestores ==
  [][faults' # faults =>
       /\ rag'.documents = rag.documents
       /\ rag'.bm25 = rag.bm25
       /\ rag'.faiss_index = rag.faiss_index
       /\ rag'.is_initialized = rag.is_initialized]_vars

\* C5: after a rebuild over a non-empty corpus in which loading the embedding
\* model failed, is_initialized is true and a query that returns from its
\* last statement returns the first top_n segments of the BM25 ranking.
C5_ModelLoadFailureDegrades ==
  (writer.pc = "done" /\ writer.failed = "model") =>
    /\ rag.is_initialized
    /\ reader.pc = "done" /\ ~reader.caught =>
         reader.result = get_top_n(reader.argsorted, rag.documents, reader.top_n)

\* C6: no exception leaves initialize, add_documents or
\* get_relevant_documents (the body of get_relevant_documents is one
\* try / except Exception, so only the writer frame can record one).
C6_NoExceptionEscapes == ~writer.raised

\* the segments a scan yields when a file that fails to load counts for none
IsolatedSegments(directory) ==
  Flatten([i \in 1..Len(directory.files) |->
             LET f == directory.files[i]
                 ext == file_extension(f)
             IN IF ext \notin {".pdf", ".txt"} \/ f.status # "ok" THEN <<>>
                ELSE IF ext = ".pdf" THEN load_pdf(f).value ELSE load_txt(f).value])

\* C7: the scan of a listable directory is never aborted by one file: it
\* returns, in listing order, the segments of every supported file that
\* loads, and nothing for a file that fails.
C7_PerFileFailureIsolated ==
  (writer.pc = "done" /\ writer.op = "initialize" /\ writer.dir.status = "ok") =>
    /\ writer.failed # "load"
    /\ writer.docs = IsolatedSegments(writer.dir)

C9_AgreedTopFirst ==
  (Answered /\ reader.searched /\ reader.lex[1] = reader.sem[1]) =>
    /\ reader.result # <<>>
    /\ reader.result[1] = rag.documents[reader.lex[1] + 1]
    /\ \A i \in 1..Len(reader.results) :
         IF reader.results[i].doc_id = reader.lex[1]
         THEN FracEq(reader.results[i].score, Frac(2, RRF_K))
         ELSE FracGt(Frac(2, RRF_K), reader.results[i].score)

\* C9 witness: both searches ranked the same position first and another
\* position was found by both searches as well
C9_Witness ==
  /\ Answered /\ reader.searched /\ reader.lex[1] = reader.sem[1]
  /\ Len(reader.lex) >= 2 /\ Len(reader.sem) >= 2
  /\ reader.lex[2] = reader.sem[2]
  /\ Len(reader.result) = 2

\* C10: the query that follows add_documents(S), S non-empty, with top_n at
\* least the corpus size, returns every segment of S.
C10_AddedSegmentsRetrievable ==
  (/\ writer.pc = "done" /\ writer.op = "add_documents" /\ writer.new # <<>>
   /\ reader.pc = "done" /\ ~reader.caught
   /\ reader.top_n >= Len(rag.documents)) =>
    Range(writer.new) \subseteq Range(reader.result)

\* what the answers of get_relevant_documents depend on in retriever h: none
\* of the indices while is_initialized is false
QueryView(h) ==
  IF h.is_initialized THEN <<TRUE, h.documents, h.bm25, h.faiss_index>>
  ELSE <<FALSE, <<>>, None, None>>

\* C11: when initialize(dir) has been called twice in a row on the same
\* directory, the retriever answers queries as the first call left it:
\* is_initialized is the same and, when it is true, so are the documents and
\* both indices.
C11_InitializeIdempotent ==
  (writer.pc = "done" /\ writer.op = "initialize") =>
    QueryView(rag) = QueryView(committed)

\* C11 witness: the pair of calls replaced a corpus and its indices by
\* another corpus
C11_Witness ==
  /\ writer.pc = "done" /\ writer.op = "initialize"
  /\ rag.is_initialized /\ rag.faiss_index # None
  /\ Len(rag.documents) = 2
  /\ writer.failed = "none"

\* C12: a query on a retriever whose corpus is empty returns the empty list,
\* does not go through its except clause, and reads neither the BM25 nor the
\* FAISS index.
C12_EmptyCorpusEmptyResult ==
  (reader.pc = "done" /\ rag.documents = <<>>) =>
    /\ reader.result = <<>>
    /\ ~reader.caught
    /\ ~reader.scored /\ ~reader.searched
    /\ reader.sawBm25 = None /\ reader.sawFaiss = None

\* C12 witness: the corpus was emptied by a re-initialization that left the
\* earlier indices in place, and a query was answered
C12_Witness ==
  /\ reader.pc = "done" /\ rag.documents = <<>>
  /\ rag.bm25 # None /\ rag.faiss_index # None

\* a query "cat" with top_n = 2 that ran both searches on the three-segment
\* corpus; BM25Okapi scores the one segment holding the token "cat" above 0
CatAnswered ==
  /\ Answered /\ reader.searched
  /\ reader.query = QueryCat /\ reader.top_n = 2
  /\ rag.documents = CatCorpus
  /\ reader.scores[1] > 0

\* C13 as stated: the first element returned is the first segment, whatever
\* order the semantic search gives the three segments.
C13_CatSegmentFirst ==
  CatAnswered => (reader.result # <<>> /\ reader.result[1] = CatSeg1)

\* C13 amended: the first element returned is the first segment, except when
\* the semantic search ranks the first segment last and ranks first the
\* segment that is second in the lexical list; that segment is then returned
\* first.
C13_CatSegmentFirstUnlessOutvoted ==
  CatAnswered =>
    /\ reader.result # <<>>
    /\ reader.result[1] =
         IF reader.sem[3] = 0 /\ reader.sem[1] = reader.lex[2]
         THEN rag.documents[reader.sem[1] + 1]
         ELSE CatSeg1

\* C13 witness: the semantic search did not rank the first segment first and
\* the first segment was still returned first
C13_Witness ==
  /\ CatAnswered
  /\ reader.sem[1] # 0
  /\ reader.result[1] = CatSeg1

\* C14: a query in which scoring, embedding the query or the FAISS search
\* raised returns the empty list, and documents, bm25, faiss_index and
\* is_initialized are what the latest write left.
C14_QueryFailureContained ==
  (reader.pc = "done" /\ reader.caught) =>
    /\ reader.result = <<>>
    /\ rag.documents = committed.documents
    /\ rag.bm25 = committed.bm25
    /\ rag.faiss_index = committed.faiss_index
    /\ rag.is_initialized = committed.is_initialized

\* C14 witness: the FAISS search raised after the lexical scores had been
\* added to results
C14_Witness ==
  /\ reader.pc = "done" /\ reader.caught
  /\ reader.scored /\ reader.results # <<>>
  /\ rag.is_initialized /\ rag.faiss_index # None

\* C15: a rebuild in which build_faiss_index returned None keeps the FAISS
\* index the retriever had before the call and ends with is_initialized
\* true.
C15_FaissFailureKeepsPriorIndex ==
  [][(faults' # faults /\ writer'.failed = "faiss") =>
       /\ rag'.faiss_index = rag.faiss_index
       /\ rag'.is_initialized]_vars

\* C16: when initialize(dir) has returned, the corpus is exactly the
\* sequence of segments the files of dir yield, whatever the corpus was
\* before, and the retriever is initialized (unless dir yields no segment at
\* all).
C16_InitializeReplacesCorpus ==
  (writer.pc = "done" /\ writer.op = "initialize") =>
    /\ rag.documents = IsolatedSegments(writer.dir)
    /\ rag.is_initialized = (rag.documents # <<>>)

\* C17: add_documents(S), S non-empty, appends S to the corpus, rebuilds both
\* indices over the whole corpus and ends with is_initialized true.
C17_AddDocumentsAppendsAndRebuilds ==
  [][(writer'.op = "add_documents" /\ rag'.documents # rag.documents) =>
       /\ rag'.documents = rag.documents \o writer'.new
       /\ rag'.bm25 = IndexOf(rag'.documents)
       /\ rag'.faiss_index = Some([vectors |-> MapSeq(rag'.documents, Embed)])
       /\ rag'.is_initialized]_vars

\* C18: add_documents with an empty sequence leaves documents, corpus,
\* bm25, faiss_index, embeddings and is_initialized as they were and runs no
\* rebuild.
C18_AddNothingChangesNothing ==
  [][(writer'.op = "add_documents" /\ writer'.new = <<>>) =>
       /\ rag'.documents = rag.documents
       /\ rag'.corpus = rag.corpus
       /\ rag'.bm25 = rag.bm25
       /\ rag'.faiss_index = rag.faiss_index
       /\ rag'.embeddings = rag.embeddings
       /\ rag'.is_initialized = rag.is_initialized
       /\ writer'.failed = "none" /\ faults' = faults]_vars

\* C18 witness: add_documents([]) returned on a retriever that holds
\* segments but is not initialized
C18_Witness ==
  /\ writer.pc = "done" /\ writer.op = "add_documents" /\ writer.new = <<>>
  /\ rag.documents # <<>> /\ ~rag.is_initialized

\* C20: initialize on a directory that does not exist returns normally: the
\* loader returned the empty list without raising, the corpus is empty and
\* is_initialized is false.
C20_MissingDirectoryIsEmptyCorpus ==
  (writer.pc = "done" /\ writer.op = "initialize" /\ writer.dir.status = "missing") =>
    /\ ~writer.raised /\ writer.failed = "none"
    /\ writer.docs = <<>>
    /\ rag.documents = <<>>
    /\ ~rag.is_initialized

\* C20 witness: the directory went missing under a retriever that had a
\* corpus and both indices
C20_Witness ==
  /\ writer.pc = "done" /\ writer.op = "initialize" /\ writer.dir.status = "missing"
  /\ rag.bm25 # None /\ rag.faiss_index # None

\* the events of the latest handler call hold first, then second, and
\* second exactly once
CalledAfter(first, second) ==
  LET events == app.call.events
  IN /\ \E i, j \in 1..Len(events) :
          i < j /\ events[i] = first /\ events[j] = second
     /\ Cardinality({j \in 1..Len(events) : events[j] = second}) = 1

\* C19: the main block has called initialize exactly once when the server
\* serves and not before it runs; an upload_document or delete_document call
\* that returns status success has called initialize once, after writing or
\* removing the file; a call rejected for a missing file or name, an invalid
\* type or a file not found has not called it.
C19_InitializeCallSites ==
  /\ app.phase = "boot" => app.boot_calls = 0
  /\ app.phase = "serving" => app.boot_calls = 1
  /\ (app.call.op = "upload_document" /\ app.call.status = "success") =>
       CalledAfter("write", "initialize")
  /\ (app.call.op = "delete_document" /\ app.call.status = "success") =>
       CalledAfter("remove", "initialize")
  /\ app.call.message \in {"No file provided", "No filename provided",
                           "Invalid file type", "File not found"} =>
       "initialize" \notin Range(app.call.events)

\* C19 witness: a deletion returned success and left the retriever
\* initialized over the files that remain
C19_Witness ==
  /\ app.call.op = "delete_document" /\ app.call.status = "success"
  /\ rag.is_initialized
  /\ writer.op = "initialize" /\ writer.dir = DirOf(app.disk)

\* position a comes before position b in the order "higher BM25 score first,
\* equal scores by lower corpus index"
LexBefore(a, b) ==
  \/ reader.scores[a + 1] > reader.scores[b + 1]
  \/ reader.scores[a + 1] = reader.scores[b + 1] /\ a < b

\* C21: the lexical candidate list holds min(2 * top_n, N) positions, ordered
\* by descending BM25 score with equal scores in ascending corpus index, and
\* every position left out comes after every position kept in that order.
C21_LexicalCandidatesLowerIndexFirst ==
  (reader.pc = "done" /\ reader.scored) =>
    /\ Len(reader.lex) = Min(2 * reader.top_n, Len(reader.scores))
    /\ \A i, j \in 1..Len(reader.lex) :
         i < j => LexBefore(reader.lex[i], reader.lex[j])
    /\ \A p \in 0..(Len(reader.scores) - 1) :
         p \notin Range(reader.lex) =>
           \A i \in 1..Len(reader.lex) : LexBefore(reader.lex[i], p)

\* the semantic list of the query in progress: indices[0] when the FAISS
\* search ran, empty otherwise
SemList == IF reader.searched THEN reader.sem ELSE <<>>

\* the positions either list holds, the sentinel left out
Listed == Range(reader.lex) \cup (Range(SemList) \ {-1})

\* what one ranked list contributes to position p
Contribution(list, p) ==
  IF p \in Range(list) THEN Frac(1, (PosIn(list, p) - 1) + RRF_K) ELSE Frac(0, 1)

\* C22: results has exactly one entry for every position that is in the
\* lexical or the semantic list and none for any other position, and the
\* score of an entry is the sum over the lists holding the position of
\* 1 / (rank + 60), rank its 0-based place in that list.
C22_FusedScoreIsSumOfContributions ==
  Answered =>
    /\ \A i \in 1..Len(reader.results) :
         /\ reader.results[i].doc_id \in Listed
         /\ FracEq(reader.results[i].score,
                   FracAdd(Contribution(reader.lex, reader.results[i].doc_id),
                           Contribution(SemList, reader.results[i].doc_id)))
    /\ \A q \in Listed : HasKey(reader.results, q)
    /\ \A i, j \in 1..Len(reader.results) :
         reader.results[i].doc_id = reader.results[j].doc_id => i = j

\* C22 witness: one position was in both lists, another was only in the
\* semantic list, and the FAISS search padded its result with -1
C22_Witness ==
  /\ Answered /\ reader.searched
  /\ Range(reader.lex) \cap Range(reader.sem) # {}
  /\ (Range(reader.sem) \ {-1}) \ Range(reader.lex) # {}
  /\ -1 \in Range(reader.sem)

\* the fused score of position q in the query in progress; a position
\* without an entry in results has none, counted as 0
FusedScore(q) ==
  IF HasKey(reader.results, q)
  THEN reader.results[CHOOSE i \in 1..Len(reader.results) :
                        reader.results[i].doc_id = q].score
  ELSE Frac(0, 1)

\* the positions of the returned segments, in the order returned
ReturnedPositions ==
  SelectSeq(reader.top, LAMBDA idx : idx < Len(rag.documents))

\* C23: the returned segments are the texts at ReturnedPositions, their
\* fused scores never increase along the sequence, and no segment of the
\* corpus that was left out has a fused score greater than that of a
\* returned one.
C23_ResultInFusedScoreOrder ==
  Answered =>
    /\ Len(reader.result) = Len(ReturnedPositions)
    /\ \A i \in 1..Len(ReturnedPositions) :
         /\ ReturnedPositions[i] \in 0..(Len(rag.documents) - 1)
         /\ reader.result[i] = rag.documents[ReturnedPositions[i] + 1]
    /\ \A i, j \in 1..Len(ReturnedPositions) :
         i < j => ~FracGt(FusedScore(ReturnedPositions[j]),
                          FusedScore(ReturnedPositions[i]))
    /\ \A q \in 0..(Len(rag.documents) - 1) :
         q \notin Range(ReturnedPositions) =>
           \A i \in 1..Len(ReturnedPositions) :
              ~FracGt(FusedScore(q), FusedScore(ReturnedPositions[i]))

\* C23 witness: with top_n = 1 the later segment of the corpus was returned
\* and the earlier one, found by a search with a smaller fused score, was
\* left out
C23_Witness ==
  /\ Answered /\ reader.searched
  /\ ReturnedPositions = <<1>>
  /\ HasKey(reader.results, 0)
  /\ FracGt(FusedScore(1), FusedScore(0))

\* C24: of two segments with identical fused scores the one with the lower
\* corpus index is returned first, and when only one of them is returned it
\* is the one with the lower index.
C24_FusedTiesByCorpusIndex ==
  Answered =>
    /\ \A i, j \in 1..Len(ReturnedPositions) :
         (i < j /\ FracEq(FusedScore(ReturnedPositions[i]),
                          FusedScore(ReturnedPositions[j]))) =>
           ReturnedPositions[i] < ReturnedPositions[j]
    /\ \A q \in 0..(Len(rag.documents) - 1) :
         q \notin Range(ReturnedPositions) =>
           \A i \in 1..Len(ReturnedPositions) :
              FracEq(FusedScore(q), FusedScore(ReturnedPositions[i])) =>
                ReturnedPositions[i] < q

\* C25: a new RAGHandler has no model and constructs none before its first
\* embedding request; a rebuild that got as far as encoding, and a query that
\* ran the FAISS search, have the model; and over any sequence of calls the
\* model is constructed at most once.
C25_ModelLoadedAtMostOnce ==
  /\ rag.loads <= 1
  /\ rag.loads = 1 <=> rag.model # None
  /\ writer.op = "none" => rag.loads = 0
  /\ (writer.pc = "done" /\ writer.failed \in {"encode", "faiss"}) => rag.model # None
  /\ rag.embeddings # None => rag.model # None
  /\ reader.searched => rag.model # None

\* C25 witness: after a rebuild that embedded two segments, a query embedded
\* its text and searched, still with the one model
C25_Witness ==
  /\ rag.loads = 1
  /\ writer.pc = "done" /\ writer.failed = "none" /\ Len(rag.documents) = 2
  /\ reader.pc = "done" /\ reader.searched

\* a query with the empty string or only whitespace that returned, on an
\* initialized retriever
BlankReturned ==
  /\ reader.pc = "done" /\ rag.is_initialized
  /\ preprocess_text(reader.query) = <<>>

\* C26 as stated: the call returns, the token list of the query is empty,
\* and every lexical score is 0.
C26_BlankQueryHasNoTokens ==
  BlankReturned =>
    /\ tokenize(preprocess_text(reader.query)) = <<>>
    /\ reader.scored => \A i \in 1..Len(reader.scores) : reader.scores[i] = 0

\* C26 amended: the call returns, the token list of the query is the single
\* empty token, and every segment whose score is not 0 holds an empty token
\* itself (two consecutive spaces in its preprocessed text).
C26_BlankQueryHasOneEmptyToken ==
  BlankReturned =>
    /\ tokenize(preprocess_text(reader.query)) = << <<>> >>
    /\ reader.scored =>
         \A i \in 1..Len(reader.scores) :
            reader.scores[i] # 0 =>
              <<>> \in Range(SplitAcc(preprocess_text(rag.documents[i]), <<>>, <<>>))

\* C26 witness: the blank query scored the segment with the double space
\* above 0 and that segment was returned first
C26_Witness ==
  /\ BlankReturned /\ Answered
  /\ reader.scores[1] > 0 /\ reader.scores[2] = 0
  /\ reader.result # <<>> /\ reader.result[1] = SegSpaced

\* the attributes of the retriever that initialize and add_documents
\* maintain
IndexState(h) ==
  <<h.documents, h.corpus, h.bm25, h.faiss_index, h.embeddings, h.is_initialized>>

\* C27: a get_relevant_documents call, whatever it returns and whether or
\* not its except clause ran, leaves documents, corpus, bm25, faiss_index,
\* embeddings and is_initialized as they were when it was called.
C27_QueryIsReadOnly ==
  [][(reader.pc = "idle" /\ reader'.pc = "done") => IndexState(rag') = IndexState(rag)]_vars

\* C27 witness: a query that embedded its text and searched the FAISS index
\* has returned segments, and the corpus embeddings are still on the
\* retriever
C27_Witness ==
  /\ Answered /\ reader.searched /\ reader.result # <<>>
  /\ rag.embeddings # None

\* C28: in a query that returned, no key of results is negative (the FAISS
\* sentinel -1 got no entry), the positions kept for the result are
\* distinct positions of the documents list, and the returned list is the
\* texts at exactly those positions.
C28_ResultIsDistinctPositions ==
  reader.pc = "done" =>
    /\ \A i \in 1..Len(reader.results) : reader.results[i].doc_id >= 0
    /\ \A i \in 1..Len(reader.top) : reader.top[i] >= 0
    /\ \A i, j \in 1..Len(ReturnedPositions) :
         ReturnedPositions[i] = ReturnedPositions[j] => i = j
    /\ reader.result =
         [i \in 1..Len(ReturnedPositions) |-> rag.documents[ReturnedPositions[i] + 1]]

\* C28 witness: FAISS padded its answer with -1, a segment found by both
\* searches was returned once, and a position beyond the documents list was
\* among the best and was dropped
C28_Witness ==
  /\ Answered /\ reader.searched
  /\ -1 \in Range(reader.sem)
  /\ \E q \in Range(ReturnedPositions) : q \in Range(reader.lex) /\ q \in Range(reader.sem)
  /\ \E q \in Range(reader.top) : q >= Len(rag.documents)

\* C29: between calls, is_initialized true implies that documents is not
\* empty, that bm25 is not None and that corpus is as long as documents; and
\* a query that passed the is_initialized guard and scored read a BM25 index.
C29_InitializedHasLexicalIndex ==
  /\ rag.is_initialized =>
       /\ rag.documents # <<>>
       /\ rag.bm25 # None
       /\ Len(rag.corpus) = Len(rag.documents)
  /\ reader.scored => reader.sawBm25 # None

\* C29 witness: after a rebuild that failed, a later call has rebuilt the
\* indices and a query has scored the corpus
C29_Witness ==
  /\ faults >= 1 /\ rag.is_initialized
  /\ Answered /\ reader.result # <<>>

\* the steps of a rebuild whose exception reaches the except clause of
\* update_index
RebuildRaised == {"preprocess", "bm25", "model"}

\* this step is a call of op, from start to return
Returns(op) ==
  /\ reader' = reader
  /\ writer' # writer \/ rag' # rag
  /\ writer'.pc = "done" /\ writer'.op = op

\* C30: an add_documents call that appended segments and whose rebuild
\* raised leaves is_initialized false and documents the old list followed by
\* the new segments; an add_documents call that appended segments and whose
\* rebuild did not raise, from any state, leaves is_initialized true with
\* corpus and bm25 built over the whole list; an initialize call that loaded
\* at least one segment and whose rebuild did not raise leaves
\* is_initialized true with documents the loaded segments; and
\* is_initialized turns from false to true only in a call whose rebuild did
\* not raise.
C30_FailedRebuildRecovery ==
  [][/\ (Returns("add_documents") /\ writer'.new # <<>>) =>
          /\ rag'.documents = rag.documents \o writer'.new
          /\ IF writer'.failed \in RebuildRaised
             THEN ~rag'.is_initialized
             ELSE /\ rag'.is_initialized
                  /\ rag'.corpus = MapSeq(rag'.documents, preprocess_text)
                  /\ rag'.bm25 = Some(BM25Okapi(MapSeq(rag'.corpus, tokenize)))
     /\ (Returns("initialize") /\ writer'.failed \notin (RebuildRaised \cup {"load"})
           /\ writer'.docs # <<>>) =>
          /\ rag'.is_initialized
          /\ rag'.documents = load_documents_from_directory(writer'.dir).value
          /\ rag'.corpus = MapSeq(rag'.documents, preprocess_text)
     /\ (~rag.is_initialized /\ rag'.is_initialized) =>
          /\ writer'.pc = "done"
          /\ writer'.op \in {"initialize", "add_documents"}
          /\ writer'.failed \notin (RebuildRaised \cup {"load"})
    ]_vars

\* C30 witness: add_documents appended one segment to a corpus of one and
\* its rebuild raised
C30_Witness ==
  /\ writer.pc = "done" /\ writer.op = "add_documents"
  /\ writer.failed \in RebuildRaised
  /\ Len(writer.new) = 1 /\ Len(rag.documents) = 2
  /\ ~rag.is_initialized

====
